---- MODULE Spec2Model ----
(***************************************************************************)
(* A model of fixrg.py: process_bam and the helpers it calls.              *)
(*                                                                         *)
(* A Python str is a sequence of one-character strings, so that            *)
(* str.replace, str.split, the "in" test, f-string concatenation and the   *)
(* ordering used by sorted() are computed as Python computes them.  A dict *)
(* with a fixed small key universe (a template, a resolved read group, a   *)
(* record's tags, the header) is a function whose DOMAIN is the set of     *)
(* keys present.  A dict whose iteration order is observable (final_rgs,   *)
(* counts) is a sequence of [key, val] items in insertion order.           *)
(***************************************************************************)
EXTENDS Integers, Sequences, FiniteSets, TLC

VARIABLES
    rgs_data,      \* argument: the list of read-group templates
    preserve_lb,   \* argument: --preserve-LB
    strip_pg,      \* argument: --strip-PG
    in_header,     \* the input BAM's header (dict: section -> list)
    in_records,    \* the input BAM's records, in file order
    pc,            \* position in process_bam
    need_pass1,    \* local need_pass1
    rg_to_lb,      \* local rg_to_lb: dict ID -> LB (function)
    final_rgs,     \* local final_rgs: dict ID -> read group (insertion ordered)
    i,             \* index of the next record of the running loop over in_bam
    j,             \* pass 1: index of the next template for record i (0: record not read yet)
    cur,           \* pass 1: the locals fc, lane, current_lb of record i
    opens,         \* number of times the input BAM has been opened for reading
    out_header,    \* the headers output files were created with (at most one)
    out_records,   \* records written to the output BAM, in order
    rg_ids,        \* value of the local rg_id at line 160, one per record of pass 2
    counts,        \* local counts (insertion ordered)
    stderr         \* lines printed to sys.stderr

vars == <<rgs_data, preserve_lb, strip_pg, in_header, in_records, pc, need_pass1,
          rg_to_lb, final_rgs, i, j, cur, opens, out_header, out_records, rg_ids,
          counts, stderr>>

\* Python's None where a str may stand instead: a one-element sequence whose
\* element is no character, so it differs from every str.
None == <<"None">>

-----------------------------------------------------------------------------
(* Strings *)

\* The characters the model's strings use, in ascending code-point order.
CodePoints == <<".", "1", "2", ":", "A", "C", "E", "F", "L", "N", "O", "W",
                "[", "]", "_", "a", "b", "c", "e", "f", "k", "l", "n", "o",
                "r", "s", "u", "w", "x", "y">>

\* ord(c), up to an order-preserving renumbering.
Ord(c) == CHOOSE n \in 1..Len(CodePoints) : CodePoints[n] = c

\* Python's s < t on str: lexicographic by code point, a proper prefix is smaller.
RECURSIVE StrLess(_, _)
StrLess(s, t) ==
    IF t = <<>> THEN FALSE
    ELSE IF s = <<>> THEN TRUE
    ELSE IF Head(s) # Head(t) THEN Ord(Head(s)) < Ord(Head(t))
    ELSE StrLess(Tail(s), Tail(t))

\* s.startswith(p)
StartsWith(s, p) == Len(p) <= Len(s) /\ SubSeq(s, 1, Len(p)) = p

\* p in s
Contains(s, p) == \E n \in 0..(Len(s) - Len(p)) : SubSeq(s, n + 1, n + Len(p)) = p

\* s.replace(old, new): non-overlapping occurrences, scanned left to right.
RECURSIVE Replace(_, _, _)
Replace(s, old, new) ==
    IF s = <<>> THEN <<>>
    ELSE IF StartsWith(s, old)
         THEN new \o Replace(SubSeq(s, Len(old) + 1, Len(s)), old, new)
         ELSE <<Head(s)>> \o Replace(Tail(s), old, new)

\* s.split(sep) for a one-character separator: the list of fields.
RECURSIVE Split(_, _)
Split(s, sep) ==
    IF \A n \in 1..Len(s) : s[n] # sep THEN <<s>>
    ELSE LET n == CHOOSE m \in 1..Len(s) :
                      s[m] = sep /\ \A q \in 1..(m - 1) : s[q] # sep
         IN <<SubSeq(s, 1, n - 1)>> \o Split(SubSeq(s, n + 1, Len(s)), sep)

FLOWCELL == <<"[", "F", "L", "O", "W", "C", "E", "L", "L", "]">>
LANE == <<"[", "L", "A", "N", "E", "]">>
unknown_fc == <<"u", "n", "k", "n", "o", "w", "n", "_", "f", "c">>
unknown_lane == <<"u", "n", "k", "n", "o", "w", "n", "_", "l", "a", "n", "e">>
NoneBucket == <<"N", "o", "n", "e">>

-----------------------------------------------------------------------------
(* Dictionaries *)

\* d.get(k, default) on a dict modelled as a function.
Get(d, k, default) == IF k \in DOMAIN d THEN d[k] ELSE default

\* d[k] = v on a dict modelled as a function.
Put(d, k, v) == [x \in DOMAIN d \cup {k} |-> IF x = k THEN v ELSE d[x]]

\* The keys of an insertion-ordered dict.
Keys(d) == {d[n].key : n \in 1..Len(d)}

\* d[k] of an insertion-ordered dict (k is a key of d).
Lookup(d, k) == d[CHOOSE n \in 1..Len(d) : d[n].key = k].val

\* list(d.values()) of an insertion-ordered dict.
Values(d) == [n \in 1..Len(d) |-> d[n].val]

\* A faulty variant of Upsert: the assignment rebinds the dict to the single new item.
UpsertRebinds(d, k, v) == <<[key |-> k, val |-> v]>>

\* A faulty variant of Upsert: an existing key keeps its first value.
UpsertKeepsFirst(d, k, v) ==
    IF k \in Keys(d) THEN d ELSE Append(d, [key |-> k, val |-> v])

\* final_rgs[k] = v: an existing key keeps its position and takes the new
\* value, a new key is appended.
Upsert(d, k, v) ==
    IF k \in Keys(d)
    THEN [n \in 1..Len(d) |-> IF d[n].key = k THEN [key |-> k, val |-> v] ELSE d[n]]
    ELSE Append(d, [key |-> k, val |-> v])

\* A faulty variant of Increment: an existing bucket is reset instead of incremented.
IncrementResets(d, k) ==
    IF k \in Keys(d)
    THEN [n \in 1..Len(d) |-> IF d[n].key = k THEN [key |-> k, val |-> 1] ELSE d[n]]
    ELSE Append(d, [key |-> k, val |-> 1])

\* counts[k] += 1 on a defaultdict(int).
Increment(d, k) ==
    IF k \in Keys(d)
    THEN [n \in 1..Len(d) |-> IF d[n].key = k
                              THEN [key |-> k, val |-> d[n].val + 1] ELSE d[n]]
    ELSE Append(d, [key |-> k, val |-> 1])

-----------------------------------------------------------------------------
(* get_flowcell_lane, resolve_rg *)

\* get_flowcell_lane(read_name): fields 2 and 3 (0-indexed) of the name split
\* on ':', or the fallback pair.
get_flowcell_lane(read_name) ==
    LET parts == Split(read_name, ":")
    IN IF Len(parts) >= 4
       THEN [fc |-> parts[3], lane |-> parts[4]]
       ELSE [fc |-> unknown_fc, lane |-> unknown_lane]

\* One iteration of resolve_rg's loop: the new value of one attribute.
resolve_value(v, flowcell, lane) ==
    LET v1 == IF Contains(v, FLOWCELL) THEN Replace(v, FLOWCELL, flowcell) ELSE v
    IN IF Contains(v1, LANE) THEN Replace(v1, LANE, lane) ELSE v1

\* resolve_rg(rg_template, flowcell, lane): a copy with every value resolved.
resolve_rg(rg_template, flowcell, lane) ==
    [k \in DOMAIN rg_template |-> resolve_value(rg_template[k], flowcell, lane)]

\* A faulty variant of HasPlaceholder: only [FLOWCELL] is looked for.
HasPlaceholderFlowcellOnly(v) == Contains(v, FLOWCELL)

\* '[FLOWCELL]' in v or '[LANE]' in v
HasPlaceholder(v) == Contains(v, FLOWCELL) \/ Contains(v, LANE)

\* The placeholders flag computed by the loop at the head of process_bam.
Placeholders(templates) ==
    \E n \in 1..Len(templates) : \E k \in DOMAIN templates[n] :
        HasPlaceholder(templates[n][k])

-----------------------------------------------------------------------------
(* The two passes' per-record computations *)

\* The rg_to_lb loop: every header RG entry with both ID and LB, later
\* entries overwriting earlier ones.
RECURSIVE BuildRgToLb(_, _)
BuildRgToLb(entries, acc) ==
    IF entries = <<>> THEN acc
    ELSE LET e == Head(entries)
         IN BuildRgToLb(Tail(entries),
                        IF "ID" \in DOMAIN e /\ "LB" \in DOMAIN e
                        THEN Put(acc, e["ID"], e["LB"]) ELSE acc)

\* in_bam.header.get('RG', [])
HeaderRGs(header) == Get(header, "RG", <<>>)

\* A faulty variant of CurrentLB: the preserve_lb guard is missing.
CurrentLBUnguarded(read, preserve, index) ==
    IF "LB" \in DOMAIN read.tags THEN read.tags["LB"]
    ELSE IF "RG" \in DOMAIN read.tags THEN Get(index, read.tags["RG"], None)
    ELSE None

\* current_lb of a record: its own LB tag, else the LB rg_to_lb maps its RG
\* tag to, else None; None whenever preserve_lb is off.
CurrentLB(read, preserve, index) ==
    IF ~preserve THEN None
    ELSE IF "LB" \in DOMAIN read.tags THEN read.tags["LB"]
    ELSE IF "RG" \in DOMAIN read.tags THEN Get(index, read.tags["RG"], None)
    ELSE None

\* The library rewrite of a resolved mapping: LB becomes current_lb and ID
\* becomes "<ID>.<current_lb>", or current_lb when there was no ID.
WithLibrary(resolved, current_lb) ==
    IF current_lb = None THEN resolved
    ELSE LET r1 == Put(resolved, "LB", current_lb)
         IN IF "ID" \in DOMAIN r1
            THEN Put(r1, "ID", r1["ID"] \o <<".">> \o current_lb)
            ELSE Put(r1, "ID", current_lb)

\* Pass 1, body of the loop over templates up to the test of 'ID'.
Pass1Resolved(template, c) == WithLibrary(resolve_rg(template, c.fc, c.lane), c.current_lb)

\* Pass 1, one template for one record: the upsert under the resolved ID.
Pass1Step(final, template, c) ==
    LET resolved == Pass1Resolved(template, c)
    IN IF "ID" \in DOMAIN resolved THEN Upsert(final, resolved["ID"], resolved)
       ELSE final

\* The locals fc, lane, current_lb of one record.
Locals(read, preserve, index) ==
    LET fl == get_flowcell_lane(read.query_name)
    IN [fc |-> fl.fc, lane |-> fl.lane, current_lb |-> CurrentLB(read, preserve, index)]

\* A faulty variant of Pass2Resolved: the second pass forgets the library rewrite.
Pass2ResolvedNoLibrary(template, c) == resolve_rg(template, c.fc, c.lane)

\* Pass 2 with a first pass: the first template resolved for the record.
Pass2Resolved(template, c) == WithLibrary(resolve_rg(template, c.fc, c.lane), c.current_lb)

\* Pass 2: the local rg_id before the test at line 160.
CandidateId(templates, need, read, preserve, index) ==
    IF templates = <<>> THEN None
    ELSE IF need
         THEN Get(Pass2Resolved(templates[1], Locals(read, preserve, index)), "ID", None)
         ELSE Get(templates[1], "ID", None)

\* "if rg_id:" - neither None nor the empty string.
Truthy(rg_id) == rg_id # None /\ rg_id # <<>>

\* A faulty variant of SetTag: the record's tags are rebuilt with RG alone.
SetTagDropsOthers(read, tag, value) ==
    [read EXCEPT !.tags = [t \in {tag} |-> value]]

\* read.set_tag(tag, value)
SetTag(read, tag, value) == [read EXCEPT !.tags = Put(read.tags, tag, value)]

\* Pass 2: the record as written (the tag set when rg_id is truthy).
Rewritten(read, rg_id) == IF Truthy(rg_id) THEN SetTag(read, "RG", rg_id) ELSE read

\* A faulty variant of Bucket: a record is counted under "None" whatever it carries.
BucketAlwaysNone(read) == NoneBucket

\* read.get_tag("RG") if read.has_tag("RG") else "None"
Bucket(read) == Get(read.tags, "RG", NoneBucket)

-----------------------------------------------------------------------------
(* The header *)

\* A faulty variant of SortKey: the ID comes first.
SortKeyIdFirst(x) == <<Get(x, "ID", <<>>), Get(x, "SM", <<>>), Get(x, "LB", <<>>)>>

\* The sort key (x.get('SM', ''), x.get('LB', ''), x.get('ID', '')).
SortKey(x) == <<Get(x, "SM", <<>>), Get(x, "LB", <<>>), Get(x, "ID", <<>>)>>

\* Python's a < b on 3-tuples of str.
KeyLess(a, b) ==
    \/ StrLess(a[1], b[1])
    \/ a[1] = b[1] /\ StrLess(a[2], b[2])
    \/ a[1] = b[1] /\ a[2] = b[2] /\ StrLess(a[3], b[3])

\* Insertion of x after every element that is not greater (stable).
RECURSIVE InsertSorted(_, _)
InsertSorted(sorted, x) ==
    IF sorted = <<>> THEN <<x>>
    ELSE IF KeyLess(SortKey(x), SortKey(Head(sorted)))
         THEN <<x>> \o sorted
         ELSE <<Head(sorted)>> \o InsertSorted(Tail(sorted), x)

RECURSIVE SortFrom(_, _)
SortFrom(list, acc) ==
    IF list = <<>> THEN acc ELSE SortFrom(Tail(list), InsertSorted(acc, Head(list)))

\* sorted(list, key=SortKey): ascending and stable.
Sorted(list) == SortFrom(list, <<>>)

\* The header handed to the output file: the input's header with RG replaced
\* by the sorted final set and PG deleted when strip_pg asks for it.
NewHeader(header, final, strip) ==
    LET h1 == Put(header, "RG", <<>>)
        h2 == IF strip /\ "PG" \in DOMAIN h1
              THEN [s \in DOMAIN h1 \ {"PG"} |-> h1[s]] ELSE h1
    IN Put(h2, "RG", Sorted(Values(final)))

\* The no-first-pass build of final_rgs: every template that has an ID.
RECURSIVE TrivialBuild(_, _)
TrivialBuild(templates, final) ==
    IF templates = <<>> THEN final
    ELSE TrivialBuild(Tail(templates),
                      IF "ID" \in DOMAIN Head(templates)
                      THEN Upsert(final, Head(templates)["ID"], Head(templates))
                      ELSE final)

-----------------------------------------------------------------------------
(* Inputs *)

\* The longest input file of the model, in records.
MaxRecords == 2

S_a == <<"a">>
S_b == <<"b">>
S_c == <<"c">>
S_r == <<"r">>
S_s == <<"s">>
S_1 == <<"1">>
S_ab == <<"a", ".", "b">>
S_bc == <<"b", ".", "c">>
S_rg1 == <<"r", "1">>
S_rg2 == <<"r", "2">>

T_fc == [ID |-> FLOWCELL, SM |-> S_s]
T_pu == [ID |-> S_a, PU |-> LANE \o <<"_">> \o LANE]
T_a == [ID |-> S_a, SM |-> S_s]
T_a2 == [ID |-> S_a, SM |-> S_r]
T_ab == [ID |-> S_ab, SM |-> S_r]
T_lb == [ID |-> S_1, SM |-> S_s, LB |-> S_c]
T_sm == [SM |-> S_s]

\* The template lists process_bam is called with: none, one, or several
\* templates; with and without ID; placeholders in ID or elsewhere; shared IDs.
TemplateLists ==
    { <<>>, <<T_fc>>, <<T_pu>>, <<T_a>>, <<T_sm>>, <<T_a, T_ab>>, <<T_ab, T_a>>,
      <<T_a, T_a2>>, <<T_a, T_lb>>, <<T_sm, T_a>>, <<T_fc, T_sm>>, <<T_pu, T_lb, T_ab>> }

\* Records: query_name and tags (RG, LB and one unrelated tag, XT).
Name_ab1 == <<"x", ":", "y", ":", "a", ".", "b", ":", "1">>
Name_a1 == <<"x", ":", "y", ":", "a", ":", "1">>
Name_a2 == <<"x", ":", "y", ":", "a", ":", "2", ":", "y">>
Name_bad == <<"x", ":", "a", ":", "1">>

RecordPool ==
    { [query_name |-> Name_ab1, tags |-> [LB |-> S_c]],
      [query_name |-> Name_a1, tags |-> [LB |-> S_bc, XT |-> S_1]],
      [query_name |-> Name_bad, tags |-> [RG |-> S_rg1, XT |-> S_a]],
      [query_name |-> Name_a2, tags |-> <<>>],
      [query_name |-> Name_a2, tags |-> [RG |-> S_rg1, LB |-> S_b]],
      [query_name |-> Name_bad, tags |-> [RG |-> S_rg2, LB |-> <<>>]] }

RecordLists == UNION { [1..n -> RecordPool] : n \in 0..MaxRecords }

\* Input headers: with read groups (one without LB, one without ID) and a
\* program history, and without either section.
HeaderPool ==
    { [SQ |-> <<[SN |-> S_1]>>,
       RG |-> <<[ID |-> S_rg1, LB |-> S_c], [ID |-> S_rg2], [LB |-> S_b]>>,
       PG |-> <<[ID |-> S_a]>>],
      [SQ |-> <<[SN |-> S_1]>>] }

NoLocals == [fc |-> None, lane |-> None, current_lb |-> None]

Init ==
    /\ rgs_data \in TemplateLists
    /\ preserve_lb \in BOOLEAN
    /\ strip_pg \in BOOLEAN
    /\ in_header \in HeaderPool
    /\ in_records \in RecordLists
    /\ pc = "start"
    /\ need_pass1 = FALSE
    /\ rg_to_lb = <<>>
    /\ final_rgs = <<>>
    /\ i = 0
    /\ j = 0
    /\ cur = NoLocals
    /\ opens = 0
    /\ out_header = <<>>
    /\ out_records = <<>>
    /\ rg_ids = <<>>
    /\ counts = <<>>
    /\ stderr = <<>>

-----------------------------------------------------------------------------
(* process_bam *)

inputs == <<rgs_data, preserve_lb, strip_pg, in_header, in_records>>
outputs == <<out_header, out_records, rg_ids, counts, stderr>>

\* Lines 65-76: the placeholder scan and need_pass1.
Start ==
    /\ pc = "start"
    /\ need_pass1' = (Placeholders(rgs_data) \/ preserve_lb)
    /\ final_rgs' = <<>>
    /\ rg_to_lb' = <<>>
    /\ pc' = IF need_pass1' THEN "pass1_open" ELSE "trivial"
    /\ UNCHANGED <<inputs, outputs, i, j, cur, opens>>

\* Lines 80-84: the first pass opens the input and builds rg_to_lb.
Pass1Open ==
    /\ pc = "pass1_open"
    /\ opens' = opens + 1
    /\ rg_to_lb' = IF preserve_lb THEN BuildRgToLb(HeaderRGs(in_header), <<>>) ELSE rg_to_lb
    /\ i' = 1
    /\ j' = 0
    /\ pc' = "pass1"
    /\ UNCHANGED <<inputs, outputs, need_pass1, final_rgs, cur>>

\* Lines 86-94: the first pass reads record i and computes fc, lane, current_lb.
Pass1Read ==
    /\ pc = "pass1"
    /\ j = 0
    /\ i <= Len(in_records)
    /\ cur' = Locals(in_records[i], preserve_lb, rg_to_lb)
    /\ IF rgs_data = <<>> THEN i' = i + 1 /\ j' = 0 ELSE i' = i /\ j' = 1
    /\ UNCHANGED <<inputs, outputs, pc, need_pass1, rg_to_lb, final_rgs, opens>>

\* Lines 96-105: the first pass resolves template j for record i and upserts it.
Pass1Template ==
    /\ pc = "pass1"
    /\ j >= 1
    /\ final_rgs' = Pass1Step(final_rgs, rgs_data[j], cur)
    /\ IF j < Len(rgs_data) THEN i' = i /\ j' = j + 1 ELSE i' = i + 1 /\ j' = 0
    /\ UNCHANGED <<inputs, outputs, pc, need_pass1, rg_to_lb, cur, opens>>

\* End of the loop at line 86: the first pass closes the input.
Pass1End ==
    /\ pc = "pass1"
    /\ j = 0
    /\ i > Len(in_records)
    /\ pc' = "header"
    /\ UNCHANGED <<inputs, outputs, need_pass1, rg_to_lb, final_rgs, i, j, cur, opens>>

\* Lines 106-109: without a first pass the templates that have an ID are the final set.
Trivial ==
    /\ pc = "trivial"
    /\ final_rgs' = TrivialBuild(rgs_data, final_rgs)
    /\ pc' = "header"
    /\ UNCHANGED <<inputs, outputs, need_pass1, rg_to_lb, i, j, cur, opens>>

\* The "Adding RG to header" lines, one per @RG line of the output header.
RECURSIVE RgLines(_)
RgLines(rgs) ==
    IF rgs = <<>> THEN <<>>
    ELSE <<[line |-> "Adding RG to header", rg |-> Head(rgs)]>> \o RgLines(Tail(rgs))

\* Lines 112-130: the input is opened again, the output is created with the
\* new header, the RG lines are printed, counts starts empty.
WriteHeader ==
    /\ pc = "header"
    /\ opens' = opens + 1
    /\ LET header == NewHeader(in_header, final_rgs, strip_pg)
       IN /\ out_header' = Append(out_header, header)
          /\ stderr' = stderr \o RgLines(header["RG"])
    /\ counts' = <<>>
    /\ i' = 1
    /\ pc' = "pass2"
    /\ UNCHANGED <<inputs, need_pass1, rg_to_lb, final_rgs, j, cur, out_records, rg_ids>>

\* Lines 131-167: the output pass handles record i: candidate ID, tag, count, write.
Pass2Record ==
    /\ pc = "pass2"
    /\ i <= Len(in_records)
    /\ LET read == in_records[i]
           rg_id == CandidateId(rgs_data, need_pass1, read, preserve_lb, rg_to_lb)
           written == Rewritten(read, rg_id)
       IN /\ rg_ids' = Append(rg_ids, rg_id)
          /\ counts' = Increment(counts, Bucket(written))
          /\ out_records' = Append(out_records, written)
    /\ i' = i + 1
    /\ UNCHANGED <<inputs, pc, need_pass1, rg_to_lb, final_rgs, j, cur, opens,
                   out_header, stderr>>

\* The "{rg_id}: {count}" lines of the summary, in the order of counts.items().
RECURSIVE CountLines(_)
CountLines(items) ==
    IF items = <<>> THEN <<>>
    ELSE <<[line |-> "count", rg_id |-> Head(items).key, count |-> Head(items).val]>>
         \o CountLines(Tail(items))

\* Lines 169-171: after the last record the summary is printed.
Summary ==
    /\ pc = "pass2"
    /\ i > Len(in_records)
    /\ stderr' = stderr \o <<[line |-> "Summary of reads assigned to each RG ID:"]>>
                        \o CountLines(counts)
    /\ pc' = "done"
    /\ UNCHANGED <<inputs, need_pass1, rg_to_lb, final_rgs, i, j, cur, opens,
                   out_header, out_records, rg_ids, counts>>

Next ==
    \/ Start
    \/ Pass1Open
    \/ Pass1Read
    \/ Pass1Template
    \/ Pass1End
    \/ Trivial
    \/ WriteHeader
    \/ Pass2Record
    \/ Summary

Spec == Init /\ [][Next]_vars

-----------------------------------------------------------------------------
(* Vocabulary of the properties *)

RECURSIVE SumCounts(_)
SumCounts(items) == IF items = <<>> THEN 0 ELSE Head(items).val + SumCounts(Tail(items))

\* An attribute of a read-group mapping, the empty string when it is missing.
AttrOrEmpty(rg, k) == IF k \in DOMAIN rg THEN rg[k] ELSE <<>>

\* (SM, LB, ID) of a strictly precedes that of b, lexicographically.
TupleBefore(a, b) ==
    LET sa == AttrOrEmpty(a, "SM")  sb == AttrOrEmpty(b, "SM")
        la == AttrOrEmpty(a, "LB")  lb == AttrOrEmpty(b, "LB")
        ia == AttrOrEmpty(a, "ID")  ib == AttrOrEmpty(b, "ID")
    IN IF sa # sb THEN StrLess(sa, sb)
       ELSE IF la # lb THEN StrLess(la, lb)
       ELSE StrLess(ia, ib)

\* Some value of some template contains [FLOWCELL] or [LANE].
AnyPlaceholder ==
    \E n \in 1..Len(rgs_data) : \E k \in DOMAIN rgs_data[n] :
        Contains(rgs_data[n][k], FLOWCELL) \/ Contains(rgs_data[n][k], LANE)

\* The output file exists; its header's RG section.
HeaderWritten == out_header # <<>>
OutRG == out_header[1]["RG"]

SummaryPrinted ==
    \E n \in 1..Len(stderr) : stderr[n].line = "Summary of reads assigned to each RG ID:"

\* The first pass over a whole record list, from an empty final set.
RECURSIVE FoldTemplates(_, _, _)
FoldTemplates(final, templates, c) ==
    IF templates = <<>> THEN final
    ELSE FoldTemplates(Pass1Step(final, Head(templates), c), Tail(templates), c)

RECURSIVE FirstPass(_, _)
FirstPass(final, reads) ==
    IF reads = <<>> THEN final
    ELSE FirstPass(FoldTemplates(final, rgs_data, Locals(Head(reads), preserve_lb, rg_to_lb)),
                   Tail(reads))

-----------------------------------------------------------------------------
(* Properties *)

\* C1 - count conservation: during and after the output pass the values of
\* counts (the "None" bucket included) sum to the number of records handled
\* so far, and to the number of source records once the pass is over.
C1_CountConservation ==
    /\ pc = "pass2" => SumCounts(counts) = i - 1
    /\ pc \in {"pass2", "done"} => SumCounts(counts) = Len(out_records)
    /\ pc = "done" => SumCounts(counts) = Len(in_records)

C1_Witness ==
    /\ pc = "done"
    /\ Len(in_records) >= 2
    /\ Len(counts) = 2
    /\ NoneBucket \in Keys(counts)

\* C2 - header ordering: the RG section of the output header holds exactly
\* the values of final_rgs, one entry per ID, in strictly ascending order of
\* (SM, LB, ID) with the empty string for a missing attribute, whatever the
\* order of registration.
C2_HeaderOrdering ==
    HeaderWritten =>
        /\ \A n, m \in 1..Len(OutRG) : n < m => TupleBefore(OutRG[n], OutRG[m])
        /\ {OutRG[n] : n \in 1..Len(OutRG)} = {final_rgs[n].val : n \in 1..Len(final_rgs)}
        /\ Len(OutRG) = Cardinality(Keys(final_rgs))
        /\ \A n, m \in 1..Len(OutRG) : n # m => OutRG[n]["ID"] # OutRG[m]["ID"]

C2_Witness ==
    /\ HeaderWritten
    /\ Len(OutRG) >= 2
    /\ OutRG # Values(final_rgs)
    /\ \E n \in 1..(Len(OutRG) - 1) : StrLess(OutRG[n + 1]["ID"], OutRG[n]["ID"])

\* C8 (state part) - stream frame condition: the output pass writes every source record
\* once and in source order, changing nothing but the RG tag; a record with
\* no usable candidate ID is written as it was read; nothing is written
\* before the output pass, and the source records never change.
C8_FrameState ==
    /\ pc \in {"start", "pass1_open", "pass1", "trivial", "header"} =>
           out_records = <<>> /\ ~HeaderWritten
    /\ pc = "pass2" => Len(out_records) = i - 1
    /\ pc = "done" => Len(out_records) = Len(in_records)
    /\ \A n \in 1..Len(out_records) :
           /\ out_records[n].query_name = in_records[n].query_name
           /\ DOMAIN out_records[n].tags \ {"RG"} = DOMAIN in_records[n].tags \ {"RG"}
           /\ \A t \in DOMAIN in_records[n].tags \ {"RG"} :
                  out_records[n].tags[t] = in_records[n].tags[t]
           /\ ~Truthy(rg_ids[n]) => out_records[n] = in_records[n]

\* C8 - the stream frame condition in every state, the source records never
\* changing, and out_records growing by one record at its end, only in the
\* output pass.
C8_StreamFrame ==
    /\ []C8_FrameState
    /\ [][in_records' = in_records]_vars
    /\ [][(out_records' # out_records) =>
             /\ pc = "pass2"
             /\ SubSeq(out_records', 1, Len(out_records)) = out_records
             /\ Len(out_records') = Len(out_records) + 1]_vars

C8_Witness ==
    /\ pc = "done"
    /\ \E n \in 1..Len(out_records) :
           /\ out_records[n] # in_records[n]
           /\ "XT" \in DOMAIN in_records[n].tags
    /\ \E n \in 1..Len(out_records) :
           /\ ~Truthy(rg_ids[n])
           /\ "RG" \in DOMAIN in_records[n].tags

\* C9 (state part) - pass structure: the first pass runs iff a template value holds a
\* placeholder or preserve_lb is set, so the input is opened once or twice
\* accordingly; final_rgs and rg_to_lb are complete when the header is
\* written and never change afterwards; the header precedes the first
\* record; the summary follows the last record.
C9_PassState ==
    /\ pc \in {"pass1_open", "pass1"} => AnyPlaceholder \/ preserve_lb
    /\ pc = "trivial" => ~(AnyPlaceholder \/ preserve_lb)
    /\ pc \in {"header", "pass2", "done"} =>
           /\ opens = (IF pc = "header" THEN 0 ELSE 1)
                      + (IF AnyPlaceholder \/ preserve_lb THEN 1 ELSE 0)
           /\ rg_to_lb = (IF preserve_lb THEN BuildRgToLb(HeaderRGs(in_header), <<>>)
                          ELSE <<>>)
           /\ final_rgs = (IF AnyPlaceholder \/ preserve_lb
                           THEN FirstPass(<<>>, in_records)
                           ELSE TrivialBuild(rgs_data, <<>>))
    /\ pc = "header" /\ (AnyPlaceholder \/ preserve_lb) => i = Len(in_records) + 1
    /\ out_records # <<>> => HeaderWritten
    /\ HeaderWritten <=> pc \in {"pass2", "done"}
    /\ SummaryPrinted => pc = "done" /\ Len(out_records) = Len(in_records)

\* C9 - the pass structure in every state, and neither final_rgs nor
\* rg_to_lb changing once the first pass (or the trivial build) is over.
C9_PassStructure ==
    /\ []C9_PassState
    /\ [][(pc \in {"header", "pass2", "done"}) =>
             (final_rgs' = final_rgs /\ rg_to_lb' = rg_to_lb)]_vars

C9_Witness ==
    /\ pc = "done"
    /\ opens = 2
    /\ ~preserve_lb
    /\ Len(in_records) = MaxRecords
    /\ SummaryPrinted

\* C10 - assignment/header consistency: an ID the output pass sets as a
\* record's RG tag is a key of final_rgs and the ID of an entry of the output
\* header's RG section.
C10_AssignedIdInHeader ==
    \A n \in 1..Len(out_records) :
        Truthy(rg_ids[n]) =>
            /\ out_records[n].tags["RG"] = rg_ids[n]
            /\ rg_ids[n] \in Keys(final_rgs)
            /\ \E m \in 1..Len(OutRG) : OutRG[m]["ID"] = rg_ids[n]

C10_Witness ==
    /\ pc = "done"
    /\ preserve_lb
    /\ Len(rgs_data) >= 2
    /\ \E n \in 1..Len(out_records) :
           /\ Truthy(rg_ids[n])
           /\ Contains(rg_ids[n], <<".">>)
           /\ Get(in_records[n].tags, "RG", None) # rg_ids[n]

\* The RG tag a record carries, or the "None" sentinel.
TagOrNone(read) == IF "RG" \in DOMAIN read.tags THEN read.tags["RG"] ELSE NoneBucket

\* The number of written records that carry k (the sentinel for no tag).
Carrying(k) == Cardinality({n \in 1..Len(out_records) : TagOrNone(out_records[n]) = k})

CountOf(k) == IF k \in Keys(counts) THEN Lookup(counts, k) ELSE 0

\* counts tallies every written record under the tag it carries.
TallyByTag ==
    /\ \A k \in Keys(counts) \cup {NoneBucket} : CountOf(k) = Carrying(k)
    /\ \A n \in 1..Len(out_records) : TagOrNone(out_records[n]) \in Keys(counts)

NoTemplatesNoGroups ==
    rgs_data = <<>> /\ pc \in {"header", "pass2", "done"} => final_rgs = <<>>

\* C5 as claimed - unassigned records: with no templates the final set is
\* empty, and every record for which no candidate ID is obtained is tallied
\* under "None", whatever tags it carried in the input.
C5_UnassignedUnderNone ==
    /\ NoTemplatesNoGroups
    /\ pc \in {"pass2", "done"} =>
           /\ TallyByTag
           /\ \A n \in 1..Len(out_records) :
                  rg_ids[n] = None => TagOrNone(out_records[n]) = NoneBucket

\* C5 as amended - with no templates the final set is empty, and every record
\* for which no candidate ID is obtained is tallied under the RG tag it
\* carried in the input, and under "None" only if it carried none.
C5_UnassignedKeepTag ==
    /\ NoTemplatesNoGroups
    /\ pc \in {"pass2", "done"} =>
           /\ TallyByTag
           /\ \A n \in 1..Len(out_records) :
                  rg_ids[n] = None => TagOrNone(out_records[n]) = TagOrNone(in_records[n])

C5_Witness ==
    /\ pc = "done"
    /\ rgs_data = <<>>
    /\ Len(counts) = 2
    /\ NoneBucket \in Keys(counts)
    /\ \E n \in 1..Len(in_records) : "RG" \in DOMAIN in_records[n].tags

\* The mapping an entry of the final set can come from: a template as it is
\* (no first pass), or a template resolved for a source record (first pass).
EntryFrom(e, t, withId) ==
    IF ~(AnyPlaceholder \/ preserve_lb)
    THEN e = t /\ withId
    ELSE \E n \in 1..Len(in_records) :
             LET c == Locals(in_records[n], preserve_lb, rg_to_lb)
             IN /\ e = Pass1Resolved(t, c)
                /\ \/ withId
                   \/ /\ preserve_lb
                      /\ c.current_lb # None
                      /\ e["ID"] = c.current_lb
                      /\ e["LB"] = c.current_lb

\* C4 as claimed - a template lacking an ID never contributes an entry to the
\* output header's RG section: every entry comes from a template with an ID.
C4_NoIdTemplateNeverInHeader ==
    HeaderWritten =>
        \A m \in 1..Len(OutRG) : \E n \in 1..Len(rgs_data) :
            /\ "ID" \in DOMAIN rgs_data[n]
            /\ EntryFrom(OutRG[m], rgs_data[n], TRUE)

\* C4 as amended - a template lacking an ID contributes an entry only in a
\* preserve-LB run and only for a record whose current_lb is defined; that
\* entry's ID and LB are both that current_lb.  Every other entry comes from
\* a template with an ID.
C4_NoIdTemplateOnlyWithLibrary ==
    HeaderWritten =>
        \A m \in 1..Len(OutRG) : \E n \in 1..Len(rgs_data) :
            EntryFrom(OutRG[m], rgs_data[n], "ID" \in DOMAIN rgs_data[n])

C4_Witness ==
    /\ HeaderWritten
    /\ preserve_lb
    /\ \A n \in 1..Len(rgs_data) : "ID" \notin DOMAIN rgs_data[n]
    /\ Len(OutRG) >= 2

\* The mapping the pending iteration of the first pass's template loop is
\* about to upsert, and the one the latest iteration has upserted.
Pending == Pass1Resolved(rgs_data[j], cur)
Latest == Pass1Resolved(rgs_data[IF j = 0 THEN Len(rgs_data) ELSE j - 1], cur)
HasLatest == pc = "pass1" /\ rgs_data # <<>> /\ (j >= 2 \/ (j = 0 /\ i >= 2))

OneEntryPerId ==
    /\ \A n, m \in 1..Len(final_rgs) : n # m => final_rgs[n].key # final_rgs[m].key
    /\ \A n \in 1..Len(final_rgs) :
           "ID" \in DOMAIN final_rgs[n].val /\ final_rgs[n].val["ID"] = final_rgs[n].key

OverwriteIsIdentical ==
    (pc = "pass1" /\ j >= 1 /\ "ID" \in DOMAIN Pending /\ Pending["ID"] \in Keys(final_rgs))
        => Lookup(final_rgs, Pending["ID"]) = Pending

\* C6 as claimed - idempotent merge: at most one entry per ID, and a mapping
\* upserted under an ID already present equals the entry it overwrites.
C6_IdempotentMerge == OneEntryPerId /\ OverwriteIsIdentical

\* A single template; no placeholder at all, or placeholders in the ID value
\* only and no library preservation.
PlaceholderOutsideId ==
    \E n \in 1..Len(rgs_data) : \E k \in DOMAIN rgs_data[n] \ {"ID"} :
        Contains(rgs_data[n][k], FLOWCELL) \/ Contains(rgs_data[n][k], LANE)
SingleTemplateKeyedById ==
    /\ Len(rgs_data) = 1
    /\ ~AnyPlaceholder \/ (~PlaceholderOutsideId /\ ~preserve_lb)

\* C6 as amended - at most one entry per ID, each stored under its own ID; an
\* upsert under an ID already present replaces the entry (the last write
\* wins); the replaced entry is sure to be identical only for a single
\* template with no placeholder, or with placeholders in its ID only and
\* preserve-LB off.
C6_LastWriteWins ==
    /\ OneEntryPerId
    /\ (HasLatest /\ "ID" \in DOMAIN Latest) =>
           (Latest["ID"] \in Keys(final_rgs) /\ Lookup(final_rgs, Latest["ID"]) = Latest)
    /\ SingleTemplateKeyedById => OverwriteIsIdentical

C6_Witness ==
    /\ HasLatest
    /\ j = 0
    /\ i = 3
    /\ "ID" \in DOMAIN Latest
    /\ Len(final_rgs) = 1
    /\ \E n \in 1..Len(rgs_data) :
           LET first == Pass1Resolved(rgs_data[n], Locals(in_records[1], preserve_lb, rg_to_lb))
           IN "ID" \in DOMAIN first /\ first["ID"] = Latest["ID"] /\ first # Latest

\* The permutations of the source records.
Reorderings(reads) ==
    { [n \in 1..Len(reads) |-> reads[f[n]]] :
        f \in { g \in [1..Len(reads) -> 1..Len(reads)] :
                    \A a, b \in 1..Len(reads) : a # b => g[a] # g[b] } }

\* A final set as a mapping, registration order left out.
AsMap(final) == {final[n] : n \in 1..Len(final)}

FirstPassDone == pc = "header" /\ (AnyPlaceholder \/ preserve_lb)

\* Two (record, template) pairs resolve to one ID with different mappings.
CollidingUpserts ==
    \E a, b \in 1..Len(in_records) : \E n, m \in 1..Len(rgs_data) :
        LET x == Pass1Resolved(rgs_data[n], Locals(in_records[a], preserve_lb, rg_to_lb))
            y == Pass1Resolved(rgs_data[m], Locals(in_records[b], preserve_lb, rg_to_lb))
        IN "ID" \in DOMAIN x /\ "ID" \in DOMAIN y /\ x["ID"] = y["ID"] /\ x # y

\* C7 as claimed - order independence: the final set the first pass computes
\* is the same for every permutation of the source records.
C7_OrderIndependent ==
    FirstPassDone =>
        \A p \in Reorderings(in_records) : AsMap(FirstPass(<<>>, p)) = AsMap(final_rgs)

\* C7 as amended - for every permutation of the source records the first
\* pass registers the same set of IDs; the mappings stored under them are the
\* same too unless two upserts under one ID differ in value, in which case
\* the one processed last is kept.
C7_OrderIndependentKeys ==
    FirstPassDone =>
        \A p \in Reorderings(in_records) :
            /\ Keys(FirstPass(<<>>, p)) = Keys(final_rgs)
            /\ ~CollidingUpserts => AsMap(FirstPass(<<>>, p)) = AsMap(final_rgs)

C7_Witness ==
    /\ FirstPassDone
    /\ ~CollidingUpserts
    /\ Len(final_rgs) >= 2
    /\ \E p \in Reorderings(in_records) : FirstPass(<<>>, p) # final_rgs

\* The library the claim calls currentLB: the record's own LB tag, else the
\* LB the index maps its RG tag to.
LibraryOf(read) ==
    IF "LB" \in DOMAIN read.tags THEN read.tags["LB"]
    ELSE IF "RG" \in DOMAIN read.tags /\ read.tags["RG"] \in DOMAIN rg_to_lb
         THEN rg_to_lb[read.tags["RG"]]
    ELSE None

\* The ID the claim composes for a record: "<t>.<currentLB>" for the first
\* template's (resolved) ID t, currentLB itself without one.
ComposedId(read) ==
    LET fl == get_flowcell_lane(read.query_name)
    IN IF "ID" \in DOMAIN rgs_data[1]
       THEN resolve_value(rgs_data[1]["ID"], fl.fc, fl.lane) \o <<".">> \o LibraryOf(read)
       ELSE LibraryOf(read)

\* C3 - library preservation composition: in a preserve-LB run every record
\* with a defined currentLB is written with the RG tag "<t>.<currentLB>"
\* (currentLB itself when the first template has no ID), and the output
\* header has an entry with that ID whose LB is the record's currentLB.
C3_LibraryPreserved ==
    (preserve_lb /\ rgs_data # <<>>) =>
        \A n \in 1..Len(out_records) :
            LibraryOf(in_records[n]) # None =>
                /\ TagOrNone(out_records[n]) = ComposedId(in_records[n])
                /\ \E m \in 1..Len(OutRG) :
                       /\ OutRG[m]["ID"] = ComposedId(in_records[n])
                       /\ OutRG[m]["LB"] = LibraryOf(in_records[n])

====
